---------------------------- MODULE Spec2Model ----------------------------
(***************************************************************************)
(* ExoticBalance Hybrid IRQ balancer                                       *)
(* (src/kernel/irq/exoticbalance/exoticbalance.c).                         *)
(*                                                                         *)
(* The module's state is the driver's globals (the enable flag, the two    *)
(* per-CPU counter arrays, heavy_tick, the delayed work), the locals of    *)
(* the work handler exotic_balance_irq while it runs, and the part of the  *)
(* platform the handler reads and writes (per-line interrupt counters,     *)
(* the interrupt descriptors, the lines' affinity, the online CPU mask).   *)
(*                                                                         *)
(* unsigned int values are 32 bits wide.  They are kept as two 16-bit      *)
(* limbs <<hi, lo>> so that every operation is computed modulo 2^32.       *)
(***************************************************************************)
EXTENDS Integers, Sequences, FiniteSets, TLC

(***************************************************************************)
(* Bounds of the model.                                                    *)
(***************************************************************************)
NrIrqs == 8
NrCpuIds == 2
MaxTicks == 3
MaxEnvEvents == 2

(***************************************************************************)
(* Constants of the program.                                               *)
(***************************************************************************)
LIGHT_INTERVAL_MS == 5000
HEAVY_INTERVAL_MS == 30000
MIN_DELTA_IRQS_BASE == 800
MAX_CPU_TEMP_THRESHOLD == 70
MAX_IRQ_MIGRATE_PER_TICK == 5
BIG_FREQ_KHZ == 2000000

IRQS == 0 .. (NrIrqs - 1)
CPUS == 0 .. (NrCpuIds - 1)
NO_CPU == -1

(***************************************************************************)
(* 32-bit unsigned arithmetic on limbs.                                    *)
(***************************************************************************)
LIMB == 2^16

U32(hi, lo) == <<hi, lo>>

U32_ZERO == U32(0, 0)

UINT_MAX == U32(LIMB - 1, LIMB - 1)

U32Small(n) == U32(n \div LIMB, n % LIMB)

Add32(a, b) ==
    LET lo == a[2] + b[2]
    IN  U32((a[1] + b[1] + (lo \div LIMB)) % LIMB, lo % LIMB)

Sub32(a, b) ==
    LET lo == a[2] - b[2]
        borrow == IF lo < 0 THEN 1 ELSE 0
    IN  U32((a[1] - b[1] - borrow + 2 * LIMB) % LIMB, (lo + LIMB) % LIMB)

Lt32(a, b) == a[1] < b[1] \/ (a[1] = b[1] /\ a[2] < b[2])

Geq32(a, b) == ~Lt32(a, b)

\* unsigned division by a small positive divisor
Div32(a, n) == U32(a[1] \div n, ((a[1] % n) * LIMB + a[2]) \div n)

(***************************************************************************)
(* The interrupt descriptors.  irq_to_desc(irq) is NO_DESC for a line      *)
(* without descriptor; desc->action is NO_ACTION for a line without        *)
(* handler; otherwise the descriptor carries the handler's name.           *)
(***************************************************************************)
NO_DESC == [desc |-> FALSE, action |-> FALSE, name |-> "", can_set |-> FALSE]

NO_ACTION(can_set) ==
    [desc |-> TRUE, action |-> FALSE, name |-> "", can_set |-> can_set]

IrqDesc(name, can_set) ==
    [desc |-> TRUE, action |-> TRUE, name |-> name, can_set |-> can_set]

irq_name_blacklist ==
    << "mdss", "sde", "dsi", "kgsl", "adreno", "msm_gpu",
       "input", "touch", "synaptics", "fts", "goodix",
       "ufs", "ufshcd", "qcom-ufshcd", "sdc",
       "wlan", "wifi", "rmnet", "ipa", "qcom,sps", "bam", "modem", "qrtr",
       "pmic", "smb", "bms", "timer", "hrtimer", "watchdog", "thermal", "cpu" >>

\* strnstr(name, frag, strlen(name)) != NULL
strnstr(name, frag) ==
    \E i \in 1 .. (Len(name) - Len(frag) + 1) :
        SubSeq(name, i, i + Len(frag) - 1) = frag

NameBlacklisted(name) ==
    \E i \in 1 .. Len(irq_name_blacklist) :
        /\ Len(name) >= Len(irq_name_blacklist[i])
        /\ strnstr(name, irq_name_blacklist[i])

\* The registries a run starts from: a mixed one (a line without
\* descriptor, a protected line, a line without handler, plain lines) and
\* one whose lines are all protected.
MixedRegistry ==
    [i \in IRQS |->
        CASE i = 0 -> NO_DESC
          [] i = 1 -> IrqDesc("synaptics_ts", TRUE)
          [] i = 2 -> NO_ACTION(TRUE)
          [] OTHER -> IrqDesc("eth0", TRUE)]

ProtectedRegistry ==
    [i \in IRQS |->
        CASE i = 0 -> IrqDesc("arch_timer", FALSE)
          [] i = 1 -> IrqDesc("synaptics_ts", TRUE)
          [] i = 2 -> IrqDesc("fts_ts", TRUE)
          [] OTHER -> IrqDesc("qcom,sps", TRUE)]

Registries == [mixed |-> MixedRegistry, protected |-> ProtectedRegistry]

\* The lines whose counters advance in the model, the CPUs they interrupt,
\* and by how much a counter advances at once: a line's burst gives the
\* advance of its counter on each of these CPUs.
FiringIrqs == {1, 2}

FiringCpus == {0, 1}

HALF_RANGE == U32(LIMB \div 2, 0)

Bursts ==
    { [c \in FiringCpus |-> IF c = 0 THEN HALF_RANGE ELSE U32_ZERO],
      [c \in FiringCpus |-> IF c = 0 THEN U32_ZERO ELSE HALF_RANGE],
      [c \in FiringCpus |-> IF c = 0 THEN UINT_MAX ELSE HALF_RANGE] }

\* Answers of the platform's live queries: cpuinfo.max_freq in kHz and the
\* zone's temperature in millidegrees, on either side of the program's
\* limits.  (A CPU without cpufreq policy reads 0 kHz and a platform without
\* the zone reads 0 degrees: both fall on the side of the lower answer.)
MaxFreqs == {BIG_FREQ_KHZ - 1, BIG_FREQ_KHZ}

ZoneTemps ==
    {MAX_CPU_TEMP_THRESHOLD * 1000 - 1, MAX_CPU_TEMP_THRESHOLD * 1000}

(***************************************************************************)
(* State.                                                                  *)
(***************************************************************************)
VARIABLES
    \* platform
    kstat,                  \* the counters of the lines that fire
    registry,               \* which of Registries the platform holds
    irq_affinity,           \* the affinity mask of each line
    cpu_online_mask,        \* the online CPUs
    env_events,             \* platform events so far (bounded by MaxEnvEvents)
    \* driver globals
    exoticbalance_enabled,
    heavy_tick,
    cpu_irq_count,
    cpu_irq_last,
    count_mem,              \* "null", "live" or "freed": what cpu_irq_count points to
    last_mem,               \* the same for cpu_irq_last
    work_pending,           \* balance_work is queued (its timer is armed)
    work_delay,             \* the delay it was last queued with, in ms
    module_state,           \* "unloaded", "init_failed", "loaded", "exiting", "exited"
    \* the work handler
    pc,                     \* "idle" when exotic_balance_irq is not running
    loc,                    \* its locals
    \* history
    ticks,                  \* handler runs started
    executed,               \* handler runs that found the enable flag on
    obs,                    \* what the running handler has seen and done
    uaf,                    \* the handler touched a counter array that is not live
    prev_max_cpu            \* max_cpu at the end of the last run that computed it

platform == <<kstat, registry, irq_affinity, cpu_online_mask, env_events>>
globals == <<exoticbalance_enabled, heavy_tick, cpu_irq_count, cpu_irq_last>>
memory == <<count_mem, last_mem>>
work == <<work_pending, work_delay, module_state>>
handler == <<pc, loc>>
history == <<ticks, executed, obs, uaf, prev_max_cpu>>
vars == <<platform, globals, memory, work, handler, history>>

ZeroCounters == [c \in CPUS |-> U32_ZERO]

\* exotic_balance_irq's locals as declared
LocInit ==
    [ irq |-> 0,
      max_irq |-> U32_ZERO, min_irq |-> UINT_MAX,
      max_cpu |-> NO_CPU, min_cpu |-> NO_CPU,
      delta_sum |-> U32_ZERO, delta_avg |-> U32_ZERO,
      dynamic_threshold |-> U32_ZERO,
      migrated |-> 0 ]

ObsInit ==
    [ skipped |-> FALSE,        \* the run found the enable flag off
      heavy |-> FALSE,          \* heavy_tick when the run sampled
      online |-> {},            \* the CPUs the delta loop visited
      delta |-> ZeroCounters,   \* the delta it computed for each of them
      called |-> FALSE,         \* migrate_irqs_limited was called, after
      freq_min |-> 0,    \*   get_cpu_max_freq(min_cpu),
      freq_max |-> 0,    \*   get_cpu_max_freq(max_cpu) and
      temp |-> 0,        \*   get_max_cpu_temp() answered these
      moved |-> {},             \* the lines irq_set_affinity was called on
      idle_seen |-> FALSE,      \* cpu_is_idle_wrap(to) answered true in the pass
      idle_at |-> {},           \*   and the lines it answered true for
      sampled |-> {},           \* the CPUs the sampling loop visited
      off_source |-> {} ]       \* lines set whose mask did not hold max_cpu

Init ==
    /\ kstat = [i \in FiringIrqs |-> ZeroCounters]
    /\ registry \in DOMAIN Registries
    /\ irq_affinity = [i \in IRQS |-> CPUS]
    /\ cpu_online_mask = CPUS
    /\ env_events = 0
    /\ exoticbalance_enabled = TRUE
    /\ heavy_tick = FALSE
    /\ cpu_irq_count = ZeroCounters
    /\ cpu_irq_last = ZeroCounters
    /\ count_mem = "null"
    /\ last_mem = "null"
    /\ work_pending = FALSE
    /\ work_delay = 0
    /\ module_state = "unloaded"
    /\ pc = "idle"
    /\ loc = LocInit
    /\ ticks = 0
    /\ executed = 0
    /\ obs = ObsInit
    /\ uaf = FALSE
    /\ prev_max_cpu = NO_CPU

(***************************************************************************)
(* The platform.                                                           *)
(***************************************************************************)
\* A line's handler ran on some CPUs: its counters advance (modulo 2^32).
\* The counters are read in one place, the sampling loop, so the interrupts
\* taken while the handler runs are folded into those taken before its
\* next run.
Interrupt(i, n) ==
    /\ env_events < MaxEnvEvents
    /\ pc = "idle"
    /\ module_state = "loaded"
    /\ kstat' = [kstat EXCEPT
                   ![i] = [c \in CPUS |->
                             IF c \in FiringCpus THEN Add32(@[c], n[c])
                                                 ELSE @[c]]]
    /\ env_events' = env_events + 1
    /\ UNCHANGED <<registry, irq_affinity, cpu_online_mask>>
    /\ UNCHANGED <<globals, memory, work, handler, history>>

\* A CPU goes offline or comes back; one CPU at least stays online.  The
\* mask is read by the sampling loop and by the delta loop: a change counts
\* when it comes before one of them.
Hotplug(c) ==
    /\ env_events < MaxEnvEvents
    /\ pc \in {"sample", "detect"}
    /\ cpu_online_mask' =
          IF c \in cpu_online_mask THEN cpu_online_mask \ {c}
                                   ELSE cpu_online_mask \cup {c}
    /\ cpu_online_mask' # {}
    /\ env_events' = env_events + 1
    /\ UNCHANGED <<kstat, registry, irq_affinity>>
    /\ UNCHANGED <<globals, memory, work, handler, history>>

\* module_param(exoticbalance_enabled, bool, 0644): written from outside
\* while the module is loaded, between two runs of the handler or during a
\* run, after the handler has read the flag.
SetEnabled ==
    /\ env_events < MaxEnvEvents
    /\ module_state = "loaded"
    /\ pc \in {"idle", "sample", "schedule_next"}
    /\ env_events' = env_events + 1
    /\ exoticbalance_enabled' = ~exoticbalance_enabled
    /\ UNCHANGED <<heavy_tick, cpu_irq_count, cpu_irq_last>>
    /\ UNCHANGED <<kstat, registry, irq_affinity, cpu_online_mask>>
    /\ UNCHANGED <<memory, work, handler, history>>

(***************************************************************************)
(* The delayed work.  schedule_delayed_work queues the work unless it is   *)
(* pending already; while cancel_delayed_work_sync is in progress the      *)
(* canceller owns the pending bit and queueing fails.  The value is the work's *)
(* pending state after the call.                                           *)
(***************************************************************************)
schedule_delayed_work == work_pending \/ module_state # "exiting"

(***************************************************************************)
(* exoticbalance_init                                                      *)
(***************************************************************************)
exoticbalance_init ==
    /\ module_state = "unloaded"
    /\ \E ok_count, ok_last \in BOOLEAN :
          /\ count_mem' = IF ok_count THEN "live" ELSE "null"
          /\ last_mem' = IF ok_last THEN "live" ELSE "null"
          /\ IF ~ok_count \/ ~ok_last
                THEN \* return -ENOMEM
                     /\ module_state' = "init_failed"
                     /\ UNCHANGED <<work_pending, work_delay>>
                ELSE /\ module_state' = "loaded"
                     /\ work_pending' = TRUE
                     /\ work_delay' = LIGHT_INTERVAL_MS
    /\ cpu_irq_count' = ZeroCounters
    /\ cpu_irq_last' = ZeroCounters
    /\ UNCHANGED <<exoticbalance_enabled, heavy_tick>>
    /\ UNCHANGED <<platform, handler, history>>

(***************************************************************************)
(* exoticbalance_exit: cancel_delayed_work_sync takes the work off the     *)
(* queue, then waits for a running handler to return; the arrays are       *)
(* freed after that.  The handler meets the cancellation only when it      *)
(* queues the work again, so of all the points of a run the cancellation   *)
(* may come at, the first one stands for the later ones: it comes between  *)
(* two runs, or right after a run has started (with the flag on or off).   *)
(***************************************************************************)
exit_cancel ==
    /\ module_state = "loaded"
    /\ pc \in {"idle", "sample", "schedule_next"}
    /\ module_state' = "exiting"
    /\ work_pending' = FALSE
    /\ UNCHANGED work_delay
    /\ UNCHANGED <<platform, globals, memory, handler, history>>

\* cancel_delayed_work in place of cancel_delayed_work_sync: no wait
cancel_without_sync == TRUE

cancel_sync_returned == pc = "idle"

exit_free ==
    /\ module_state = "exiting"
    /\ cancel_sync_returned
    /\ count_mem' = "freed"
    /\ last_mem' = "freed"
    /\ module_state' = "exited"
    /\ UNCHANGED <<work_pending, work_delay>>
    /\ UNCHANGED <<platform, globals, handler, history>>

(***************************************************************************)
(* exotic_balance_irq, the work handler.  The workqueue never runs one     *)
(* work item twice at once: a run starts only when none is in progress.    *)
(***************************************************************************)
irq_to_desc(i) == Registries[registry][i]

\* is_irq_blacklisted on a descriptor
desc_blacklisted(d) ==
    IF ~d.desc \/ ~d.action THEN FALSE ELSE NameBlacklisted(d.name)

\* the lines of each registry that is_irq_blacklisted answers true for
BlacklistedLines ==
    [r \in DOMAIN Registries |->
        {i \in IRQS : desc_blacklisted(Registries[r][i])}]

is_irq_blacklisted(i) == i \in BlacklistedLines[registry]

irq_can_set_affinity(i) == irq_to_desc(i).desc /\ irq_to_desc(i).can_set

kstat_irqs_cpu(i, c) == IF i \in FiringIrqs THEN kstat[i][c] ELSE U32_ZERO

is_cpu_big(freq) == freq >= BIG_FREQ_KHZ

\* get_max_cpu_temp: the zone's reading in millidegrees, divided by 1000
get_max_cpu_temp(zone_temp) == zone_temp \div 1000

\* cpu_is_idle_wrap(cpu): what the platform may answer.  A CPU found idle
\* counts as a platform event.  (The build without cpuidle_cpu_in_idle
\* always answers false.)
IdleAnswers == IF env_events < MaxEnvEvents THEN BOOLEAN ELSE {FALSE}

IdleEvent(answer) == env_events' = env_events + (IF answer THEN 1 ELSE 0)

\* The handler reads or writes the counter arrays.
Touch == uaf' = (uaf \/ count_mem # "live" \/ last_mem # "live")

\* the label schedule_next placed before line 173
disabled_target_before_toggle == "toggle"

\* a return in place of goto schedule_next
disabled_target_return == "idle"

\* where a run that finds the enable flag off continues
disabled_target == "schedule_next"

\* lines 130-140: the locals are initialised and the enable flag is read
TickStart ==
    /\ work_pending
    /\ pc = "idle"
    /\ ticks < MaxTicks
    /\ work_pending' = FALSE
    /\ ticks' = ticks + 1
    /\ loc' = LocInit
    /\ IF ~exoticbalance_enabled
          THEN /\ pc' = disabled_target
               /\ obs' = [ObsInit EXCEPT !.skipped = TRUE]
               /\ UNCHANGED executed
          ELSE /\ pc' = "sample"
               /\ obs' = ObsInit
               /\ executed' = executed + 1
    /\ UNCHANGED <<work_delay, module_state, uaf, prev_max_cpu>>
    /\ UNCHANGED <<platform, globals, memory>>

\* lines 144-150 for one CPU: the sum, over the lines not skipped, of the
\* line's counter on that CPU
RECURSIVE SampleSum(_, _)
SampleSum(i, c) ==
    IF i >= NrIrqs THEN U32_ZERO
    ELSE LET rest == SampleSum(i + 1, c)
         IN  IF ~heavy_tick /\ is_irq_blacklisted(i)
                THEN rest
                ELSE Add32(kstat_irqs_cpu(i, c), rest)

\* line 142 left out: the sums are added to the counts of the run before
memset_left_out(c) == cpu_irq_count[c]

\* line 142: what the memset leaves in cpu_irq_count[c]
memset_count(c) == U32_ZERO

\* the enable flag read a second time, between the two loops
after_sample_recheck ==
    IF exoticbalance_enabled THEN "detect" ELSE "schedule_next"

\* line 152 follows line 150: the flag is not read again
after_sample == "detect"

\* lines 142-150
TickSample ==
    /\ pc = "sample"
    /\ cpu_irq_count' =
          [c \in CPUS |->
              IF c \in cpu_online_mask
                 THEN Add32(memset_count(c), SampleSum(0, c))
                 ELSE memset_count(c)]
    /\ Touch
    /\ obs' = [obs EXCEPT !.heavy = heavy_tick, !.sampled = cpu_online_mask]
    /\ pc' = after_sample
    /\ UNCHANGED <<exoticbalance_enabled, heavy_tick, cpu_irq_last>>
    /\ UNCHANGED <<platform, memory, work, loc, ticks, executed>>
    /\ UNCHANGED prev_max_cpu

\* line 159 storing the delta in place of the count
store_last_delta(last, c) ==
    [last EXCEPT ![c] = Sub32(cpu_irq_count[c], last[c])]

\* line 159
store_last(last, c) == [last EXCEPT ![c] = cpu_irq_count[c]]

\* lines 152-160: the loop over the online CPUs, in ascending order.  st
\* carries the locals, the array cpu_irq_last and the deltas computed.
\* delta_sum is an int: the sum is formed in unsigned arithmetic and
\* converted back, so it keeps the low 32 bits.
RECURSIVE DeltaLoop(_, _)
DeltaLoop(c, st) ==
    IF c >= NrCpuIds THEN st
    ELSE IF c \notin cpu_online_mask THEN DeltaLoop(c + 1, st)
    ELSE LET delta == Sub32(cpu_irq_count[c], st.last[c])
             isMax == Lt32(st.l.max_irq, delta)
             isMin == Lt32(delta, st.l.min_irq)
             l1 == [st.l EXCEPT !.delta_sum = Add32(@, delta)]
             l2 == IF isMax
                      THEN [l1 EXCEPT !.max_irq = delta, !.max_cpu = c]
                      ELSE l1
             l3 == IF isMin
                      THEN [l2 EXCEPT !.min_irq = delta, !.min_cpu = c]
                      ELSE l2
         IN  DeltaLoop(c + 1,
                       [l |-> l3,
                        last |-> store_last(st.last, c),
                        delta |-> [st.delta EXCEPT ![c] = delta]])

\* line 162: num_online_cpus() is unsigned, so the division is unsigned
delta_average(sum) == Div32(sum, Cardinality(cpu_online_mask))

\* line 165
cpus_found(l) == l.max_cpu >= 0 /\ l.min_cpu >= 0 /\ l.max_cpu # l.min_cpu

\* line 166: an unsigned comparison (the int threshold is converted)
over_threshold(l) == Geq32(Sub32(l.max_irq, l.min_irq), l.dynamic_threshold)

\* lines 152-171: the delta loop, the threshold and the decision.  The
\* frequency and temperature queries are made only as far as the && chain
\* of lines 166-168 evaluates; a query not made is recorded as not answered.
TickDetect ==
    /\ pc = "detect"
    /\ LET st == DeltaLoop(0, [l |-> loc, last |-> cpu_irq_last,
                               delta |-> ZeroCounters])
           avg == delta_average(st.l.delta_sum)
           l == [st.l EXCEPT
                    !.delta_avg = avg,
                    !.dynamic_threshold =
                        Add32(avg, U32Small(MIN_DELTA_IRQS_BASE))]
           ask_min == cpus_found(l) /\ over_threshold(l)
       IN  /\ cpu_irq_last' = st.last
           /\ loc' = l
           /\ prev_max_cpu' = l.max_cpu
           /\ \E f_min, f_max \in MaxFreqs, zone_temp \in ZoneTemps :
                LET ask_max == ask_min /\ ~is_cpu_big(f_min)
                    ask_temp == ask_max /\ is_cpu_big(f_max)
                    go == ask_temp /\
                          get_max_cpu_temp(zone_temp) < MAX_CPU_TEMP_THRESHOLD
                    unasked(asked, answer, S) ==
                        asked \/ answer = CHOOSE a \in S : TRUE
                IN  /\ unasked(ask_min, f_min, MaxFreqs)
                    /\ unasked(ask_max, f_max, MaxFreqs)
                    /\ unasked(ask_temp, zone_temp, ZoneTemps)
                    /\ obs' = [obs EXCEPT
                                 !.online = cpu_online_mask,
                                 !.delta = st.delta,
                                 !.freq_min = IF go THEN f_min ELSE 0,
                                 !.freq_max = IF go THEN f_max ELSE 0,
                                 !.temp =
                                     IF go THEN get_max_cpu_temp(zone_temp)
                                           ELSE 0,
                                 !.called = go]
                    /\ pc' = IF go THEN "migrate" ELSE "toggle"
    /\ Touch
    /\ UNCHANGED <<exoticbalance_enabled, heavy_tick, cpu_irq_count>>
    /\ UNCHANGED <<platform, memory, work, ticks, executed>>

\* lines 111-112 left out
migrate_loop_done_without_cap(l) == l.irq >= NrIrqs

\* line 110-112: the loop ends at the last line or at the cap
migrate_loop_done(l) ==
    l.irq >= NrIrqs \/ l.migrated >= MAX_IRQ_MIGRATE_PER_TICK

\* lines 117-118 left out
migrate_candidate_without_blacklist(i) == irq_can_set_affinity(i)

\* a migrator that takes lines off the source only
migrate_candidate_on_source(i) ==
    /\ irq_can_set_affinity(i)
    /\ ~is_irq_blacklisted(i)
    /\ loc.max_cpu \in irq_affinity[i]

\* lines 114-118: the line may be given to the destination, were it awake
migrate_candidate(i) == irq_can_set_affinity(i) /\ ~is_irq_blacklisted(i)

\* cpumask_set_cpu without the cpumask_clear of line 123
new_mask_without_clear(i, to) == irq_affinity[i] \cup {to}

\* lines 123-124: the mask handed to irq_set_affinity
new_mask(i, to) == {to}

\* migrate_irqs_limited(max_cpu, min_cpu, &migrated), one iteration of its
\* loop per step: cpu_is_idle_wrap(to) is asked anew for each candidate
\* line, and the platform may answer differently each time (the build
\* without cpuidle_cpu_in_idle always answers false).
TickMigrate ==
    /\ pc = "migrate"
    /\ IF migrate_loop_done(loc)
          THEN /\ pc' = "toggle"
               /\ UNCHANGED <<loc, obs, irq_affinity, env_events>>
          ELSE /\ pc' = "migrate"
               /\ IF ~migrate_candidate(loc.irq)
                     THEN /\ loc' = [loc EXCEPT !.irq = @ + 1]
                          /\ UNCHANGED <<obs, irq_affinity, env_events>>
                     ELSE \E to_idle \in IdleAnswers :
                            /\ IdleEvent(to_idle)
                            /\ IF to_idle
                               THEN /\ loc' = [loc EXCEPT !.irq = @ + 1]
                                    /\ obs' = [obs EXCEPT
                                                  !.idle_seen = TRUE,
                                                  !.idle_at = @ \cup {loc.irq}]
                                    /\ UNCHANGED irq_affinity
                               ELSE /\ irq_affinity' =
                                         [irq_affinity EXCEPT
                                            ![loc.irq] =
                                               new_mask(loc.irq, loc.min_cpu)]
                                    /\ loc' = [loc EXCEPT
                                                  !.irq = @ + 1,
                                                  !.migrated = @ + 1]
                                    /\ obs' = [obs EXCEPT
                                          !.moved = @ \cup {loc.irq},
                                          !.off_source =
                                             IF loc.max_cpu \in
                                                   irq_affinity[loc.irq]
                                                THEN @
                                                ELSE @ \cup {loc.irq}]
    /\ UNCHANGED <<kstat, registry, cpu_online_mask>>
    /\ UNCHANGED <<globals, memory, work, ticks, executed, uaf>>
    /\ UNCHANGED prev_max_cpu

\* line 173 inside the if of lines 165-171, after a migration only
toggled_after_migration == IF loc.migrated > 0 THEN ~heavy_tick ELSE heavy_tick

\* line 173
toggled_heavy_tick == ~heavy_tick

\* line 175: the CPU whose idle state the reschedule step asks for
idle_query_cpu == loc.max_cpu

\* lines 173-179: a run that was not skipped toggles heavy_tick; then
\* cpu_is_idle_wrap(max_cpu) picks the delay, the work is queued again and
\* the handler returns
TickSchedule ==
    /\ pc \in {"toggle", "schedule_next"}
    /\ heavy_tick' = IF pc = "toggle" THEN toggled_heavy_tick ELSE heavy_tick
    /\ \E max_idle \in IdleAnswers :
          /\ IdleEvent(max_idle)
          /\ work_delay' = IF work_pending \/ module_state = "exiting"
                              THEN work_delay
                              ELSE IF max_idle THEN HEAVY_INTERVAL_MS
                                               ELSE LIGHT_INTERVAL_MS
    /\ work_pending' = schedule_delayed_work
    /\ pc' = "idle"
    /\ loc' = LocInit
    /\ obs' = ObsInit
    /\ UNCHANGED <<module_state, ticks, executed, uaf, prev_max_cpu>>
    /\ UNCHANGED <<kstat, registry, irq_affinity, cpu_online_mask>>
    /\ UNCHANGED <<exoticbalance_enabled, cpu_irq_count, cpu_irq_last>>
    /\ UNCHANGED memory

Next ==
    \/ \E i \in FiringIrqs, n \in Bursts : Interrupt(i, n)
    \/ \E c \in CPUS : Hotplug(c)
    \/ SetEnabled
    \/ exoticbalance_init
    \/ exit_cancel
    \/ exit_free
    \/ TickStart
    \/ TickSample
    \/ TickDetect
    \/ TickMigrate
    \/ TickSchedule

Spec == Init /\ [][Next]_vars

(***************************************************************************)
(* Exact (unbounded) arithmetic, for stating what the 32-bit code should   *)
(* compute.  A wide number is <<h, l>>, worth h * 2^16 + l, with l below   *)
(* 2^16 once normalised.                                                   *)
(***************************************************************************)
WNorm(w) == <<w[1] + (w[2] \div LIMB), w[2] % LIMB>>

WAdd(w, k) == WNorm(<<w[1], w[2] + k>>)

WDivFloor(w, n) ==
    LET v == WNorm(w)
    IN  WNorm(<<v[1] \div n, ((v[1] % n) * LIMB + v[2]) \div n>>)

WGeq(a, b) == a[1] > b[1] \/ (a[1] = b[1] /\ a[2] >= b[2])

\* the sum of the deltas of the CPUs c .. NrCpuIds - 1 that the run visited
RECURSIVE TrueDeltaSum(_)
TrueDeltaSum(c) ==
    IF c >= NrCpuIds THEN <<0, 0>>
    ELSE LET rest == TrueDeltaSum(c + 1)
         IN  IF c \in obs.online
                THEN <<rest[1] + obs.delta[c][1], rest[2] + obs.delta[c][2]>>
                ELSE rest

TrueDeltaAvg == WDivFloor(TrueDeltaSum(0), Cardinality(obs.online))

\* a line's handler name contains a fragment of the blacklist
NameHasFragment(i) ==
    /\ irq_to_desc(i).desc
    /\ irq_to_desc(i).action
    /\ \E k \in 1 .. Len(irq_name_blacklist) :
          strnstr(irq_to_desc(i).name, irq_name_blacklist[k])

Running == pc # "idle"

(***************************************************************************)
(* Claims.                                                                 *)
(***************************************************************************)

\* C1: migrate_irqs_limited is called in a run only if a busiest CPU max_cpu
\* and an idlest CPU min_cpu were found among the online CPUs and differ,
\* maxDelta - minDelta >= deltaAvg + 800 with deltaAvg the floor of the true
\* sum of the online CPUs' deltas divided by their number, min_cpu is slow
\* and max_cpu is fast, and the temperature is below 70.
C1_MigrateOnlyIfAuthorized ==
    obs.called =>
        /\ loc.max_cpu \in obs.online
        /\ loc.min_cpu \in obs.online
        /\ loc.max_cpu # loc.min_cpu
        /\ \A c \in obs.online :
              /\ Geq32(obs.delta[loc.max_cpu], obs.delta[c])
              /\ Geq32(obs.delta[c], obs.delta[loc.min_cpu])
        /\ WGeq(Sub32(obs.delta[loc.max_cpu], obs.delta[loc.min_cpu]),
                WAdd(TrueDeltaAvg, MIN_DELTA_IRQS_BASE))
        /\ obs.freq_min < BIG_FREQ_KHZ
        /\ obs.freq_max >= BIG_FREQ_KHZ
        /\ obs.temp < MAX_CPU_TEMP_THRESHOLD

\* the largest member of a non-empty set of numbers
SetMax(S) == CHOOSE m \in S : \A x \in S : x <= m

\* C2: in one run the migrator sets the affinity of at most 5 lines (the
\* lines set are as many as the counter says), and once 5 are set it has
\* stopped scanning: the scan index rests just after the fifth line.
C2_AtMostFivePerTick ==
    /\ Cardinality(obs.moved) = loc.migrated
    /\ loc.migrated <= MAX_IRQ_MIGRATE_PER_TICK
    /\ \A i \in obs.moved : i < loc.irq /\ irq_affinity[i] = {loc.min_cpu}
    /\ loc.migrated >= MAX_IRQ_MIGRATE_PER_TICK =>
          loc.irq = SetMax(obs.moved) + 1

\* a pass that ended at the cap with an eligible line left unscanned
C2_Witness ==
    /\ pc = "toggle"
    /\ loc.migrated = MAX_IRQ_MIGRATE_PER_TICK
    /\ \E i \in IRQS : i >= loc.irq /\ migrate_candidate(i)

\* C3: a line whose handler name contains a blacklist fragment keeps the
\* affinity it had at start through every run, COARSE or FINE, and is never
\* among the lines the migrator set.
C3_BlacklistedNeverMoved ==
    \A i \in IRQS :
        NameHasFragment(i) => irq_affinity[i] = CPUS /\ i \notin obs.moved

\* a FINE run whose pass went over a settable protected line, with the
\* destination awake, and set another line
C3_Witness ==
    /\ obs.heavy
    /\ obs.called
    /\ ~obs.idle_seen
    /\ \E i, j \in IRQS :
          /\ i < j
          /\ NameHasFragment(i)
          /\ irq_can_set_affinity(i)
          /\ j \in obs.moved

\* C4: once exit has begun no work is pending; the arrays are freed only
\* when no run is in flight and none is pending; after exit no run executes;
\* and no run ever touches a freed (or unallocated) array.
C4_NoTickAfterExit ==
    /\ ~uaf
    /\ module_state = "exiting" => ~work_pending
    /\ (count_mem = "freed" \/ last_mem = "freed") =>
          ~Running /\ ~work_pending /\ module_state = "exited"
    /\ module_state = "exited" => ~Running /\ ~work_pending

\* exit called while a run is in flight, the run about to queue itself again
C4_Witness ==
    /\ module_state = "exiting"
    /\ pc = "toggle"
    /\ count_mem = "live"
    /\ last_mem = "live"

\* C5: after a failed init no array is allocated and no work is pending.
C5_FailedInitLeavesNothing ==
    module_state = "init_failed" =>
        /\ count_mem # "live"
        /\ last_mem # "live"
        /\ ~work_pending

\* C6: heavy_tick starts false and is toggled once by every run that found
\* the enable flag on, migration or not, and by no other: between runs it
\* is false iff the number of such runs is even.
C6_ModeParity ==
    LET toggles == IF pc \in {"idle", "schedule_next"}
                      THEN executed
                      ELSE executed - 1
    IN  heavy_tick = (toggles % 2 = 1)

\* two executed runs and one skipped run later the mode is COARSE again
C6_Witness ==
    /\ pc = "idle"
    /\ executed = 2
    /\ ticks = 3
    /\ ~heavy_tick

\* C7: every step of a run that found the enable flag off leaves
\* cpu_irq_count, cpu_irq_last, heavy_tick and every affinity unchanged,
\* and the run ends by queueing the work, which was not queued, once.
C7_SkippedTickFrame ==
    [][/\ (obs.skipped \/ obs'.skipped) =>
              UNCHANGED <<cpu_irq_count, cpu_irq_last, heavy_tick,
                          irq_affinity>>
       /\ (obs.skipped /\ pc' = "idle" /\ module_state = "loaded") =>
              ~work_pending /\ work_pending']_vars

\* a skipped run after an executed one, about to queue the next
C7_Witness ==
    /\ obs.skipped
    /\ pc = "schedule_next"
    /\ executed >= 1
    /\ module_state = "loaded"

\* C8: once the delta loop of a run is done, cpu_irq_last[c] equals
\* cpu_irq_count[c] for every CPU the loop found online, whether or not the
\* migrator is then called; a skipped run does not change cpu_irq_last.
C8_LastEqualsCount ==
    /\ [](pc \in {"migrate", "toggle"} =>
             \A c \in obs.online : cpu_irq_last[c] = cpu_irq_count[c])
    /\ [][(obs.skipped \/ obs'.skipped) => UNCHANGED cpu_irq_last]_vars

\* a run without migration that stored a count other than zero
C8_Witness ==
    /\ pc = "toggle"
    /\ ~obs.called
    /\ \E c \in obs.online :
          /\ cpu_irq_last[c] # U32_ZERO
          /\ cpu_irq_last[c] = cpu_irq_count[c]

\* C9: if the destination was found idle at some point of a pass, the pass
\* sets no line to it.
C9_IdleDestinationGetsNothing == obs.idle_seen => obs.moved = {}

\* C10: while the module is loaded exactly one of "the work is queued" and
\* "the handler is running" holds, and every run that ends (executed or
\* skipped) queues the work, which was not queued.
C10_OneTickInFlight ==
    /\ [](module_state = "loaded" => (work_pending # Running))
    /\ [][(Running /\ ~Running' /\ module_state = "loaded") =>
              ~work_pending /\ work_pending']_vars

\* the work queued again after an executed and a skipped run
C10_Witness ==
    /\ module_state = "loaded"
    /\ ~Running
    /\ work_pending
    /\ ticks >= 2
    /\ executed >= 1
    /\ executed < ticks

\* the idle query of this step was answered "idle"
FoundIdle == env_events' > env_events

\* the step that ends a run with the flag on (Executed) or off (Skipped) and
\* queues the work
EndsExecutedRun == pc = "toggle" /\ pc' = "idle" /\ work_pending'

EndsSkippedRun == pc = "schedule_next" /\ pc' = "idle" /\ work_pending'

\* C11: a run that found the enable flag on queues the work with the long
\* delay if the busiest CPU it identified is idle when asked, and with the
\* short delay otherwise (also when it identified no busiest CPU).
C11_DelayAfterExecutedTick ==
    [][EndsExecutedRun =>
          work_delay' = IF loc.max_cpu \in CPUS /\ FoundIdle
                           THEN HEAVY_INTERVAL_MS
                           ELSE LIGHT_INTERVAL_MS]_vars

\* C12: a run that found the enable flag off asks for the idle state of the
\* busiest CPU of the last run that identified one, and queues the work with
\* the long delay if it is idle and the short delay otherwise.
C12_SkippedDelayFromPreviousBusiest ==
    [][(EndsSkippedRun /\ prev_max_cpu \in CPUS) =>
          /\ idle_query_cpu = prev_max_cpu
          /\ work_delay' = IF FoundIdle THEN HEAVY_INTERVAL_MS
                                        ELSE LIGHT_INTERVAL_MS]_vars

\* a line that is affinity-settable and not protected, by its descriptor
Eligible(i) ==
    /\ irq_to_desc(i).desc
    /\ irq_to_desc(i).can_set
    /\ ~NameHasFragment(i)

\* C13: a pass of the migrator with destination min_cpu sets exactly the
\* eligible lines it examined while the destination was not idle, in
\* ascending order and until it has set 5 or reached the last line; each
\* line set has the affinity {min_cpu}, and no step changes the affinity of
\* a line other than the one being set.
C13_MigratedSet ==
    /\ [](obs.called =>
            /\ obs.moved =
                  {i \in IRQS : i < loc.irq /\ Eligible(i) /\
                                i \notin obs.idle_at}
            /\ Cardinality(obs.moved) <= MAX_IRQ_MIGRATE_PER_TICK
            /\ pc = "toggle" =>
                  \/ loc.irq = NrIrqs
                  \/ Cardinality(obs.moved) = MAX_IRQ_MIGRATE_PER_TICK
            /\ \A i \in obs.moved : irq_affinity[i] = {loc.min_cpu})
    /\ [][\A i \in IRQS :
             irq_affinity'[i] # irq_affinity[i] =>
                 /\ pc = "migrate"
                 /\ i = loc.irq
                 /\ i \in obs'.moved \ obs.moved]_vars

\* a finished pass that skipped an eligible line because the destination was
\* idle and then set five later ones
C13_Witness ==
    /\ pc = "toggle"
    /\ obs.called
    /\ Cardinality(obs.moved) = MAX_IRQ_MIGRATE_PER_TICK
    /\ \E i \in obs.idle_at : \E j \in obs.moved : i < j /\ Eligible(i)

\* the sum modulo 2^32 of the counters on CPU c of the lines in S
RECURSIVE CountSum(_, _)
CountSum(S, c) ==
    IF S = {} THEN U32_ZERO
    ELSE LET i == CHOOSE j \in S : TRUE
         IN  Add32(kstat[i][c], CountSum(S \ {i}, c))

\* the lines whose counters a run in the current mode is to count: all in
\* FINE mode, the unprotected ones in COARSE mode (a line outside FiringIrqs
\* never fires: its counters are 0)
CountedLines ==
    IF heavy_tick THEN FiringIrqs
                  ELSE {i \in FiringIrqs : ~NameHasFragment(i)}

\* C14: from the end of the sampling loop to the end of the run,
\* cpu_irq_count[c] is the sum of the counted lines' counters on c for every
\* CPU the loop found online, and 0 for every other CPU.
C14_SampleFromZero ==
    pc \in {"detect", "migrate", "toggle"} =>
        \A c \in CPUS :
            cpu_irq_count[c] =
                IF c \in obs.sampled THEN CountSum(CountedLines, c)
                                     ELSE U32_ZERO

\* a COARSE run after a FINE run that had counted a protected line: the
\* count of the run before is not 0 and the new one is
C14_Witness ==
    /\ pc = "detect"
    /\ ~heavy_tick
    /\ executed >= 3
    /\ \E c \in obs.sampled :
          /\ cpu_irq_last[c] # U32_ZERO
          /\ cpu_irq_count[c] = U32_ZERO
          /\ \E i \in FiringIrqs : NameHasFragment(i) /\ kstat[i][c] # U32_ZERO

WMul(w, n) == WNorm(<<w[1] * n, w[2] * n>>)

\* the delta loop of the current run is done
DeltaLoopDone == pc \in {"migrate", "toggle"} /\ obs.online # {}

\* deltaAvg * onlineCpuCount <= the true sum of the deltas
AvgTimesCountWithinSum ==
    DeltaLoopDone =>
        WGeq(WNorm(TrueDeltaSum(0)),
             WMul(loc.delta_avg, Cardinality(obs.online)))

\* C15: the delta_avg of a run is the exact floor of the true sum of the
\* online CPUs' deltas divided by their number, whatever 32-bit deltas they
\* have, and so delta_avg * onlineCpuCount <= the true sum.
C15_ExactFloorAverage ==
    /\ AvgTimesCountWithinSum
    /\ DeltaLoopDone => loc.delta_avg = TrueDeltaAvg

\* every line the platform knows is protected
AllLinesProtected ==
    \A i \in IRQS : irq_to_desc(i).desc => NameHasFragment(i)

\* C16: in a COARSE run with every known line protected, also one that
\* follows a FINE run, delta_avg is 0 and the migrator is not called.
C16_AllProtectedCoarse ==
    (DeltaLoopDone /\ ~heavy_tick /\ AllLinesProtected) =>
        /\ loc.delta_avg = U32_ZERO
        /\ ~obs.called

\* Sufficient for "no counter has wrapped and the online set has not
\* changed": every burst, hotplug, flag write and idle answer counts as a
\* platform event; a single burst on counters that start at 0 does not
\* wrap, and a single hotplug would have taken a CPU out of the full mask.
MonotonicSoFar == env_events <= 1 /\ cpu_online_mask = CPUS

\* C17: with monotonic counters and an unchanged online set,
\* cpu_irq_count[c] >= cpu_irq_last[c] for every online CPU when the delta
\* loop starts, in COARSE and FINE runs alike, so the subtraction of line
\* 153 does not wrap.
C17_DeltaNeverWraps ==
    (pc = "detect" /\ MonotonicSoFar) =>
        \A c \in cpu_online_mask : Geq32(cpu_irq_count[c], cpu_irq_last[c])

\* C18: the enable flag is read when a run starts and not again: the run
\* goes the way of the value read (obs.skipped) whatever is written to the
\* flag meanwhile.  A run that started with the flag on passes the sampling
\* loop, stores cpu_irq_last for the online CPUs and toggles heavy_tick; a
\* run that started with it off does none of these; a write to the flag
\* changes nothing else.
C18_FlagReadOnce ==
    /\ [](Running =>
            IF obs.skipped
               THEN pc = "schedule_next"
               ELSE pc \in {"sample", "detect", "migrate", "toggle"})
    /\ [][/\ (~Running /\ Running') =>
                obs'.skipped = ~exoticbalance_enabled
          /\ (pc = "sample" /\ pc' # "sample") => pc' = "detect"
          /\ (pc = "detect" /\ pc' # "detect") =>
                \A c \in cpu_online_mask :
                    cpu_irq_last'[c] = cpu_irq_count[c]
          /\ (pc = "toggle" /\ pc' # "toggle") => heavy_tick' = ~heavy_tick
          /\ (pc = "schedule_next" /\ pc' # "schedule_next") =>
                UNCHANGED <<heavy_tick, cpu_irq_count, cpu_irq_last>>
          /\ exoticbalance_enabled' # exoticbalance_enabled =>
                UNCHANGED <<pc, loc, obs, heavy_tick, cpu_irq_count,
                            cpu_irq_last, irq_affinity, work>>]_vars

\* a run that started with the flag on, about to toggle, the flag now off
C18_Witness ==
    /\ pc = "toggle"
    /\ ~obs.skipped
    /\ ~exoticbalance_enabled
    /\ \E c \in obs.online : cpu_irq_last[c] # U32_ZERO

\* the lowest-id eligible lines, up to 5: a function of the registry alone
FirstEligible ==
    {i \in IRQS :
        /\ Eligible(i)
        /\ Cardinality({j \in IRQS : j < i /\ Eligible(j)}) <
              MAX_IRQ_MIGRATE_PER_TICK}

\* C19: a pass in which the destination was never found idle sets exactly
\* the lowest-id eligible lines, up to 5, whatever the source CPU and the
\* lines' current affinity; and no step of such a pass, in any run, changes
\* the affinity of a line outside them.
C19_SelectionIgnoresSource ==
    /\ []((pc = "toggle" /\ obs.called /\ ~obs.idle_seen) =>
             obs.moved = FirstEligible)
    /\ [][\A i \in IRQS :
             (irq_affinity'[i] # irq_affinity[i] /\ ~obs'.idle_seen) =>
                 i \in FirstEligible]_vars

\* a later pass that set the same five lines again although they were no
\* longer routed to the source, leaving a sixth eligible line alone
C19_Witness ==
    /\ pc = "toggle"
    /\ obs.called
    /\ ~obs.idle_seen
    /\ Cardinality(obs.off_source) = MAX_IRQ_MIGRATE_PER_TICK
    /\ \E i \in IRQS :
          Eligible(i) /\ i \notin FirstEligible /\ irq_affinity[i] = CPUS

\* C20: every idle query of a run is for a valid CPU id: the destination
\* asked for in the migrator's pass, and the CPU asked for when the delay is
\* chosen, on an executed run and on a skipped run.
C20_IdleQueryValidCpu ==
    /\ pc = "migrate" => loc.min_cpu \in CPUS
    /\ pc \in {"toggle", "schedule_next"} => idle_query_cpu \in CPUS

=============================================================================
